---- MODULE Spec2Model ----
(***************************************************************************)
(* Battleship (React): the game engine of src/unnamed/part_000 (the        *)
(* refactored App) and src/src/App.jsx (the original App).                 *)
(*                                                                         *)
(* The React state of the App component is the state of the machine.  One  *)
(* action is one input event (mount, click on a cell, click on Reiniciar)  *)
(* together with the re-render and the passive effect React flushes for a  *)
(* discrete event before it dispatches the next one.                       *)
(*                                                                         *)
(* Math.random() is an injected source: a record from which the i-th draw  *)
(* of a call is read, so that buildBoard is a function of the source.      *)
(***************************************************************************)
EXTENDS Integers, Sequences, FiniteSets

VARIABLES impl, board, placements, shots, hits, sunk, gameOver, uncaught, call

vars == <<impl, board, placements, shots, hits, sunk, gameOver, uncaught, call>>

game == <<board, placements, shots, hits, sunk, gameOver>>

(***************************************************************************)
(* Constants of the program                                                *)
(***************************************************************************)
GRID_SIZE == 10

SHIPS ==
  << [id |-> "A", size |-> 5, name |-> "Portaaviones"],
     [id |-> "B", size |-> 4, name |-> "Acorazado"],
     [id |-> "C", size |-> 3, name |-> "Crucero"],
     [id |-> "D", size |-> 3, name |-> "Submarino"],
     [id |-> "E", size |-> 2, name |-> "Destructor"] >>

MaxTries == 500

null == "null"

Original == "src/App.jsx"

Refactor == "part_000"

Impls == {Original, Refactor}

(***************************************************************************)
(* Bounds of the model                                                     *)
(***************************************************************************)
\* Math.random() returns u / RandRes for an integer u in 0 .. RandRes-1.
RandRes == 10

\* Phases 0 .. MaxGenSeed of the pseudo-random cycle are the sources of the
\* generator specification.
MaxGenSeed == 127

\* Phases 0 .. MaxGameSeed are the sources of the game specification.
MaxGameSeed == 1

\* The player probes the cells (k, 9 - k), k < MaxProbes, whatever they hold.
MaxProbes == 1

\* The player sinks the ships in catalogue order, but for at most MaxStray
\* hits standing on other unsunk ships.
MaxStray == 0

\* Two calls are delivered in one batch only while shots < MaxBatchedShots.
MaxBatchedShots == 2

(***************************************************************************)
(* Helpers                                                                 *)
(***************************************************************************)
Rows == 0 .. GRID_SIZE - 1

Coords == Rows \X Rows

ShipIds == {SHIPS[i].id : i \in 1 .. Len(SHIPS)}

RECURSIVE SumSizes(_)
\* SHIPS.reduce((acc, s) => acc + s.size, 0) over the first n ships
SumSizes(n) == IF n = 0 THEN 0 ELSE SumSizes(n - 1) + SHIPS[n].size

(***************************************************************************)
(* The random source                                                       *)
(***************************************************************************)
\* A fixed pseudo-random cycle of 256 values (x -> x(2x+1) permutes 0 .. 255);
\* a seed is the phase at which a source enters the cycle.
Cycle(i) == ((i % 256) * (2 * (i % 256) + 1)) % 256

Seeded(seed) == [kind |-> "cycle", seed |-> seed]

Fixed(seq) == [kind |-> "seq", seq |-> seq]

\* The i-th value (i = 0, 1, ...) Math.random() returns, times RandRes.
Draw(src, i) ==
  IF src.kind = "cycle"
    THEN (Cycle(src.seed + i) * RandRes) \div 256
    ELSE src.seq[(i % Len(src.seq)) + 1]

\* A source that has already served n draws.
Advance(src, n) ==
  IF src.kind = "cycle"
    THEN Seeded((src.seed + n) % 256)
    ELSE Fixed([i \in 1 .. Len(src.seq) |-> src.seq[((i - 1 + n) % Len(src.seq)) + 1]])

(***************************************************************************)
(* Board and placement generator                                           *)
(***************************************************************************)
EmptyCell == [hasShip |-> FALSE, hit |-> FALSE, shipId |-> null, sunk |-> FALSE]

createEmptyBoard == [r \in Rows |-> [c \in Rows |-> EmptyCell]]

\* Math.floor(u/RandRes * max)
randomInt(u, max) == (u * max) \div RandRes

\* Math.random() < 0.5 ? "H" : "V"
randomDir(u) == IF 2 * u < RandRes THEN "H" ELSE "V"

dirLimits(dir, size) ==
  [maxRow |-> IF dir = "H" THEN GRID_SIZE ELSE GRID_SIZE - size + 1,
   maxCol |-> IF dir = "V" THEN GRID_SIZE ELSE GRID_SIZE - size + 1]

getStep(dir, k) == IF dir = "V" THEN [dr |-> k, dc |-> 0] ELSE [dr |-> 0, dc |-> k]

\* The cell the k-th step from (r0, c0) lands on
stepCell(r0, c0, dir, k) ==
  [r |-> r0 + getStep(dir, k).dr, c |-> c0 + getStep(dir, k).dc]

\* Mutant: the test is inverted (a free cell rejects the origin).
canPlaceAtInverted(b, r0, c0, dir, size) ==
  \A k \in 0 .. size - 1 :
    b[stepCell(r0, c0, dir, k).r][stepCell(r0, c0, dir, k).c].hasShip

\* Mutant: the overlap check accepts every origin.
canPlaceAtAnywhere(b, r0, c0, dir, size) == TRUE

canPlaceAt(b, r0, c0, dir, size) ==
  \A k \in 0 .. size - 1 :
    ~ b[stepCell(r0, c0, dir, k).r][stepCell(r0, c0, dir, k).c].hasShip

\* board[r][c] = { ...board[r][c], hasShip: true, shipId: ship.id }
shipCell(cell, ship) == [cell EXCEPT !.hasShip = TRUE, !.shipId = ship.id]

\* Mutant: the loop stops one step early (k < ship.size - 1).
writeShipShort(b, r0, c0, dir, ship) ==
  LET coords == [k \in 1 .. ship.size - 1 |-> stepCell(r0, c0, dir, k - 1)]
      on(r, c) == \E k \in 1 .. ship.size - 1 : coords[k] = [r |-> r, c |-> c]
  IN  [board  |-> [r \in Rows |-> [c \in Rows |->
                     IF on(r, c) THEN shipCell(b[r][c], ship) ELSE b[r][c]]],
       coords |-> coords]

writeShip(b, r0, c0, dir, ship) ==
  LET coords == [k \in 1 .. ship.size |-> stepCell(r0, c0, dir, k - 1)]
      on(r, c) == \E k \in 1 .. ship.size : coords[k] = [r |-> r, c |-> c]
  IN  [board  |-> [r \in Rows |-> [c \in Rows |->
                     IF on(r, c) THEN shipCell(b[r][c], ship) ELSE b[r][c]]],
       coords |-> coords]

\* placeShip(board, ship) reading Math.random() from src.  The result is
\* [ok, board, coords, used]: ok = FALSE is the thrown Error, used is the
\* number of draws consumed.
placeShip(b, ship, src) ==
  LET dir  == randomDir(Draw(src, 0))
      lim  == dirLimits(dir, ship.size)
      r0(t) == randomInt(Draw(src, 1 + 2 * t), lim.maxRow)
      c0(t) == randomInt(Draw(src, 2 + 2 * t), lim.maxCol)
      free(t) == canPlaceAt(b, r0(t), c0(t), dir, ship.size)
  IN  IF \A t \in 0 .. MaxTries - 1 : ~ free(t)
        THEN [ok |-> FALSE, board |-> b, coords |-> << >>, used |-> 1 + 2 * MaxTries]
        ELSE LET t == CHOOSE t \in 0 .. MaxTries - 1 :
                        free(t) /\ \A u \in 0 .. t - 1 : ~ free(u)
             IN  [ok |-> TRUE, board |-> writeShip(b, r0(t), c0(t), dir, ship).board,
                  coords |-> writeShip(b, r0(t), c0(t), dir, ship).coords,
                  used |-> 1 + 2 * (t + 1)]

\* One iteration of buildBoard's loop: placements[ship.id] = placeShip(board,
\* ship).  acc is [ok, board, placements, used]; a thrown Error ends the loop.
placeNext(acc, ship, src) ==
  LET p == placeShip(acc.board, ship, Advance(src, acc.used))
  IN  IF ~ acc.ok THEN acc
      ELSE IF ~ p.ok
        THEN [acc EXCEPT !.ok = FALSE, !.used = acc.used + p.used]
        ELSE [ok |-> TRUE, board |-> p.board,
              placements |-> [id \in DOMAIN acc.placements \cup {ship.id} |->
                 IF id = ship.id THEN p.coords ELSE acc.placements[id]],
              used |-> acc.used + p.used]

RECURSIVE buildPrefix(_, _)
\* The state of buildBoard after the first n ships of SHIPS
buildPrefix(src, n) ==
  IF n = 0
    THEN [ok |-> TRUE, board |-> createEmptyBoard,
          placements |-> [id \in {} |-> << >>], used |-> 0]
    ELSE CHOOSE acc \in {placeNext(prev, SHIPS[n], src) :
                           prev \in {buildPrefix(src, n - 1)}} : TRUE

buildBoard(src) == buildPrefix(src, Len(SHIPS))

(***************************************************************************)
(* Sunk detection                                                          *)
(***************************************************************************)
getShipCells(b, shipId) ==
  {x \in Coords : b[x[1]][x[2]].shipId = shipId}

\* Mutant: cells.some instead of cells.every.
isShipSunkSome(b, shipId) ==
  \E x \in getShipCells(b, shipId) : b[x[1]][x[2]].hit

isShipSunk(b, shipId) ==
  \A x \in getShipCells(b, shipId) : b[x[1]][x[2]].hit

\* Mutant: the sunk cell is rewritten without its hit flag.
markShipSunkUnhit(b, shipId) ==
  LET cells == getShipCells(b, shipId)
  IN  [r \in Rows |-> [c \in Rows |->
         IF <<r, c>> \in cells
           THEN [b[r][c] EXCEPT !.sunk = TRUE, !.hit = FALSE] ELSE b[r][c]]]

\* Mutant: every ship cell is marked, whatever its shipId.
markShipSunkAll(b, shipId) ==
  [r \in Rows |-> [c \in Rows |->
     IF b[r][c].shipId # null THEN [b[r][c] EXCEPT !.sunk = TRUE] ELSE b[r][c]]]

markShipSunk(b, shipId) ==
  LET cells == getShipCells(b, shipId)
  IN  [r \in Rows |-> [c \in Rows |->
         IF <<r, c>> \in cells THEN [b[r][c] EXCEPT !.sunk = TRUE] ELSE b[r][c]]]

\* next = cloneBoard(board); next[r][c].hit = true
markHit(b, r, c) == [b EXCEPT ![r][c].hit = TRUE]

(***************************************************************************)
(* The App component.  A state st is the record of the React state         *)
(* [board, placements, shots, hits, sunk, gameOver]; seen is the state     *)
(* the running closures were rendered from.                                *)
(***************************************************************************)
\* Mutant: the reduce stops before the last ship of the catalogue.
totalShipCellsShort == SumSizes(Len(SHIPS) - 1)

totalShipCells == SumSizes(Len(SHIPS))

State ==
  [board |-> board, placements |-> placements, shots |-> shots, hits |-> hits,
   sunk |-> sunk, gameOver |-> gameOver]

\* Mutant: no early return for a cell that is already hit.
applyShotAgain(seen, r, c) ==
  IF seen.gameOver THEN [changed |-> FALSE, board |-> seen.board]
  ELSE [changed |-> TRUE, board |-> markHit(seen.board, r, c),
        wasHit |-> seen.board[r][c].hasShip, shipId |-> seen.board[r][c].shipId]

\* Mutant: no early return when the game is over.
applyShotAfterOver(seen, r, c) ==
  IF seen.board[r][c].hit THEN [changed |-> FALSE, board |-> seen.board]
  ELSE [changed |-> TRUE, board |-> markHit(seen.board, r, c),
        wasHit |-> seen.board[r][c].hasShip, shipId |-> seen.board[r][c].shipId]

\* part_000: applyShot(r, c), reading board and gameOver from the closure
applyShot(seen, r, c) ==
  IF seen.gameOver THEN [changed |-> FALSE, board |-> seen.board]
  ELSE IF seen.board[r][c].hit THEN [changed |-> FALSE, board |-> seen.board]
  ELSE [changed |-> TRUE, board |-> markHit(seen.board, r, c),
        wasHit |-> seen.board[r][c].hasShip, shipId |-> seen.board[r][c].shipId]

\* Mutant: no isShipSunk check before the ship is marked and counted.
updateAfterHitAlways(st, nextBoard, shipId) ==
  IF shipId = null THEN [st EXCEPT !.board = nextBoard]
  ELSE [st EXCEPT !.board = markShipSunk(nextBoard, shipId), !.sunk = @ + 1]

\* part_000: updateAfterHit(nextBoard, shipId) applied to the pending state
updateAfterHit(st, nextBoard, shipId) ==
  IF shipId = null THEN [st EXCEPT !.board = nextBoard]
  ELSE IF ~ isShipSunk(nextBoard, shipId) THEN [st EXCEPT !.board = nextBoard]
  ELSE [st EXCEPT !.board = markShipSunk(nextBoard, shipId), !.sunk = @ + 1]

\* Mutant: setState is skipped when the shot sinks a ship.
handleShotRefactorDropsSunk(seen, st, r, c) ==
  LET result == applyShot(seen, r, c)
  IN  IF ~ result.changed THEN st
      ELSE LET s1 == [st EXCEPT !.shots = @ + 1]
               s2 == IF result.wasHit THEN [s1 EXCEPT !.hits = @ + 1] ELSE s1
               s3 == IF result.wasHit
                       THEN updateAfterHit(s2, result.board, result.shipId)
                       ELSE [s2 EXCEPT !.board = result.board]
           IN  IF s3.sunk # s2.sunk THEN [s3 EXCEPT !.board = st.board] ELSE s3

\* part_000: handleShot(r, c); the state after its queued updates
handleShotRefactor(seen, st, r, c) ==
  LET result == applyShot(seen, r, c)
  IN  IF ~ result.changed THEN st
      ELSE LET s1 == [st EXCEPT !.shots = @ + 1]
               s2 == IF result.wasHit THEN [s1 EXCEPT !.hits = @ + 1] ELSE s1
           IN  IF result.wasHit
                 THEN updateAfterHit(s2, result.board, result.shipId)
                 ELSE [s2 EXCEPT !.board = result.board]

\* App.jsx: markSunkIfApplies(nextBoard, shipId) applied to the pending state
markSunkIfApplies(st, nextBoard, shipId) ==
  LET allHit == \A x \in Coords :
                  ~ (nextBoard[x[1]][x[2]].shipId = shipId /\ ~ nextBoard[x[1]][x[2]].hit)
  IN  IF allHit
        THEN [st EXCEPT !.sunk = @ + 1,
                        !.board = [r \in Rows |-> [c \in Rows |->
                           IF nextBoard[r][c].shipId = shipId
                             THEN [nextBoard[r][c] EXCEPT !.sunk = TRUE]
                             ELSE nextBoard[r][c]]]]
        ELSE [st EXCEPT !.board = nextBoard]

\* Mutant: setHits runs for every accepted shot, ship or water.
handleShotOriginalAnyHit(seen, st, r, c) ==
  IF seen.gameOver THEN st
  ELSE LET cell == st.board[r][c]
           next == markHit(st.board, r, c)
           s1   == [st EXCEPT !.shots = @ + 1, !.hits = @ + 1]
       IN  IF cell.hit THEN st
           ELSE IF cell.hasShip
             THEN markSunkIfApplies(s1, next, cell.shipId)
             ELSE [s1 EXCEPT !.board = next]

\* App.jsx: handleShot(r, c): gameOver from the closure, the board from the
\* setBoard updater's prev
handleShotOriginal(seen, st, r, c) ==
  IF seen.gameOver THEN st
  ELSE LET cell == st.board[r][c]
           next == markHit(st.board, r, c)
           s1   == [st EXCEPT !.shots = @ + 1]
       IN  IF cell.hit THEN st
           ELSE IF cell.hasShip
             THEN markSunkIfApplies([s1 EXCEPT !.hits = @ + 1], next, cell.shipId)
             ELSE [s1 EXCEPT !.board = next]

handleShot(i, seen, st, r, c) ==
  IF i = Original THEN handleShotOriginal(seen, st, r, c)
                  ELSE handleShotRefactor(seen, st, r, c)

\* Mutant: hits <= totalShipCells returns early (a strict comparison).
gameOverEffectStrict(st) ==
  IF totalShipCells = 0 THEN st
  ELSE IF st.hits <= totalShipCells THEN st
  ELSE [st EXCEPT !.gameOver = TRUE]

\* Mutant: the total is the hardcoded 20 instead of totalShipCells.
gameOverEffectTwenty(st) ==
  IF st.hits < 20 THEN st ELSE [st EXCEPT !.gameOver = TRUE]

\* useEffect(..., [hits, totalShipCells]) body
gameOverEffect(st) ==
  IF totalShipCells = 0 THEN st
  ELSE IF st.hits < totalShipCells THEN st
  ELSE [st EXCEPT !.gameOver = TRUE]

\* Mutant: the effect compares the hits of the previous render.
flushStale(prevHits, st) ==
  IF st.hits # prevHits /\ prevHits >= totalShipCells
    THEN [st EXCEPT !.gameOver = TRUE] ELSE st

\* Mutant: hits is missing from the dependency list; the effect runs at
\* mount only.
flushNoDeps(prevHits, st) == st

\* The render that follows an event and its passive effects: the effect
\* runs when hits differs from the hits of the previous render.
flush(prevHits, st) == IF st.hits # prevHits THEN gameOverEffect(st) ELSE st

\* useState initialisers of the first render
mountState(i, src) ==
  LET first  == buildBoard(src)
      second == buildBoard(Advance(src, first.used))
  IN  IF i = Refactor
        THEN [ok |-> first.ok, board |-> first.board,
              placements |-> first.placements, used |-> first.used]
        ELSE [ok |-> first.ok /\ second.ok, board |-> first.board,
              placements |-> second.placements, used |-> first.used + second.used]

\* resetGame(): the state after its queued updates
resetGame(st, fresh) ==
  [board |-> fresh.board, placements |-> fresh.placements, shots |-> 0,
   hits |-> 0, sunk |-> 0, gameOver |-> FALSE]

(***************************************************************************)
(* Inputs                                                                  *)
(***************************************************************************)
GenSources ==
  {Seeded(s) : s \in 0 .. MaxGenSeed} \cup {Fixed(<<u>>) : u \in 0 .. RandRes - 1}

GameSources == {Seeded(s) : s \in 0 .. MaxGameSeed}

PlaceSources == {Fixed(<<d, r, c>>) : d, r, c \in 0 .. RandRes - 1}

\* The outcomes of buildBoard() over the sources
BuiltGen == {buildBoard(src) : src \in GenSources}

BuiltGame == {buildBoard(src) : src \in GameSources}

\* An outcome of buildBoard() in which placeShip exhausts its tries and throws
StuckBuilt == {buildBoard(Fixed(<<0>>))}

ProbeCells == {<<k, GRID_SIZE - 1 - k>> : k \in 0 .. MaxProbes - 1}

\* The ship the player is sinking: the first of the catalogue with a cell
\* not yet hit (null when every ship is sunk)
currentShip(b) ==
  LET left == {i \in 1 .. Len(SHIPS) : ~ isShipSunk(b, SHIPS[i].id)}
  IN  IF left = {} THEN null
      ELSE SHIPS[CHOOSE i \in left : \A j \in left : i <= j].id

\* The number of hit cells of unsunk ships other than the current one
strayHits(b) ==
  Cardinality({x \in Coords : /\ b[x[1]][x[2]].hasShip
                              /\ b[x[1]][x[2]].hit
                              /\ ~ b[x[1]][x[2]].sunk
                              /\ b[x[1]][x[2]].shipId # currentShip(b)})

\* The cells the player clicks: the probe cells, the cells already shot, the
\* cells of the current ship and, while fewer than MaxStray stray hits stand,
\* the cells of the other ships.
Targets(b) ==
  LET cur  == currentShip(b)
      more == strayHits(b) < MaxStray
  IN  {x \in Coords :
         \/ x \in ProbeCells
         \/ b[x[1]][x[2]].hit
         \/ b[x[1]][x[2]].hasShip /\ (more \/ b[x[1]][x[2]].shipId = cur)}

(***************************************************************************)
(* Actions                                                                 *)
(***************************************************************************)
Set(st) ==
  /\ board' = st.board
  /\ placements' = st.placements
  /\ shots' = st.shots
  /\ hits' = st.hits
  /\ sunk' = st.sunk
  /\ gameOver' = st.gameOver

Start(st) ==
  /\ board = st.board
  /\ placements = st.placements
  /\ shots = st.shots
  /\ hits = st.hits
  /\ sunk = st.sunk
  /\ gameOver = st.gameOver

\* What the last call of the generator did: the function, whether it
\* returned, and the number of Math.random() draws it made.
Called(fn, res) == [fn |-> fn, ok |-> res.ok, used |-> res.used]

\* First render of App and the effects of the mount
Mount(sources) ==
  \E i \in Impls, src \in sources :
    \E m \in {mountState(i, src)} :
        /\ impl = i
        /\ call = Called("buildBoard", m)
        /\ IF m.ok
             THEN /\ uncaught = "none"
                  /\ Start(gameOverEffect(
                       [board |-> m.board, placements |-> m.placements, shots |-> 0,
                        hits |-> 0, sunk |-> 0, gameOver |-> FALSE]))
             ELSE /\ uncaught = "mount"
                  /\ Start([board |-> createEmptyBoard, placements |-> << >>,
                            shots |-> 0, hits |-> 0, sunk |-> 0, gameOver |-> FALSE])

\* onClick={() => handleShot(r, c)}
HandleShot(r, c) ==
  /\ uncaught # "mount"
  /\ \E st \in {flush(hits, handleShot(impl, State, State, r, c))} : Set(st)
  /\ uncaught' = "none"
  /\ UNCHANGED <<impl, call>>

\* onClick={resetGame}; built is what buildBoard() may return or throw
ResetGame(built) ==
  /\ uncaught # "mount"
  /\ \E fresh \in built :
       /\ call' = Called("buildBoard", fresh)
       /\ IF fresh.ok
            THEN /\ \E st \in {flush(hits, resetGame(State, fresh))} : Set(st)
                 /\ uncaught' = "none"
            ELSE /\ uncaught' = "reset"
                 /\ UNCHANGED game
  /\ UNCHANGED impl

Init == Mount(GameSources)

Next ==
  \/ \E x \in Targets(board) : HandleShot(x[1], x[2])
  \/ ResetGame(BuiltGame)

Spec == Init /\ [][Next]_vars

(***************************************************************************)
(* The generator alone: mounts and resets over many random sources.        *)
(***************************************************************************)
InitGen == Mount(GenSources)

NextGen == ResetGame(BuiltGen)

SpecGen == InitGen /\ [][NextGen]_vars

(***************************************************************************)
(* placeShip alone: buildBoard has placed the first n ships from a game    *)
(* source and places the next one from any three draws, repeated.          *)
(***************************************************************************)
InitPlace ==
  \E src \in GameSources, n \in 0 .. Len(SHIPS) - 1 :
    \E acc \in {buildPrefix(src, n)} :
      /\ impl = Refactor
      /\ call = [fn |-> "buildPrefix", ok |-> acc.ok, n |-> n]
      /\ uncaught = "none"
      /\ Start([board |-> acc.board, placements |-> acc.placements,
                shots |-> 0, hits |-> 0, sunk |-> 0, gameOver |-> FALSE])

PlaceShip ==
  /\ call.fn = "buildPrefix"
  /\ call.ok
  /\ \E src \in PlaceSources :
       \E p \in {placeShip(board, SHIPS[call.n + 1], src)} :
           /\ call' = [fn |-> "placeShip", ok |-> p.ok, used |-> p.used,
                       ship |-> SHIPS[call.n + 1], coords |-> p.coords,
                       before |-> board]
           /\ board' = p.board
           /\ uncaught' = IF p.ok THEN "none" ELSE "placeShip"
  /\ UNCHANGED <<impl, placements, shots, hits, sunk, gameOver>>

NextPlace == PlaceShip

SpecPlace == InitPlace /\ [][NextPlace]_vars

(***************************************************************************)
(* The game with a Math.random() that may also make buildBoard throw on    *)
(* a reset.                                                                *)
(***************************************************************************)
NextThrow ==
  \/ \E x \in Targets(board) : HandleShot(x[1], x[2])
  \/ ResetGame(BuiltGame \cup StuckBuilt)

SpecThrow == Init /\ [][NextThrow]_vars

(***************************************************************************)
(* The game with a caller that may deliver two handleShot calls before the *)
(* component re-renders: both run in the closures of the same render, and  *)
(* React applies their queued updates in order in one render.              *)
(***************************************************************************)
\* The state after handleShot(x) and handleShot(y) run against the rendered
\* state seen, and after the render and effects that follow
batchedShots(i, seen, x, y) ==
  flush(seen.hits,
        handleShot(i, seen, handleShot(i, seen, seen, x[1], x[2]), y[1], y[2]))

\* The state after handleShot(x), a render with its effects, and handleShot(y)
\* with the render and effects after it
successiveShots(i, seen, x, y) ==
  LET mid == flush(seen.hits, handleShot(i, seen, seen, x[1], x[2]))
  IN  flush(mid.hits, handleShot(i, mid, mid, y[1], y[2]))

BatchedShots(x, y) ==
  /\ uncaught # "mount"
  /\ shots < MaxBatchedShots
  /\ \E st \in {batchedShots(impl, State, x, y)} : Set(st)
  /\ uncaught' = "none"
  /\ UNCHANGED <<impl, call>>

NextBatch ==
  \/ \E x \in Targets(board) : HandleShot(x[1], x[2])
  \/ \E x, y \in Targets(board) : BatchedShots(x, y)
  \/ ResetGame(BuiltGame)

SpecBatch == Init /\ [][NextBatch]_vars

(***************************************************************************)
(* One game played to its end: the player keeps clicking cells not yet     *)
(* shot and never clicks Reiniciar.                                        *)
(***************************************************************************)
\* The unshot cells this player clicks: the probe cells and the cells of
\* the current ship (the ships are sunk in catalogue order).
LiveTargets(b) ==
  {x \in Coords :
     /\ ~ b[x[1]][x[2]].hit
     /\ \/ x \in ProbeCells
        \/ b[x[1]][x[2]].hasShip /\ b[x[1]][x[2]].shipId = currentShip(b)}

ShootFresh == \E x \in LiveTargets(board) : HandleShot(x[1], x[2])

NextLive == ShootFresh

SpecLive == Init /\ [][NextLive]_vars /\ WF_vars(ShootFresh)

(***************************************************************************)
(* Properties                                                              *)
(***************************************************************************)
Cell(x) == board[x[1]][x[2]]

\* The coordinates a placement list holds, as cells of the board
CoordSet(coords) == {<<coords[k].r, coords[k].c>> : k \in DOMAIN coords}

\* C1: every board buildBoard returns has exactly 17 cells with hasShip, each
\* catalogue ship owns exactly size cells carrying its shipId (so no cell
\* belongs to two ships), and hasShip holds exactly where shipId is not null.
C1_FleetOnBoard ==
  uncaught # "mount" =>
    /\ Cardinality({x \in Coords : Cell(x).hasShip}) = 17
    /\ \A i \in 1 .. Len(SHIPS) :
         Cardinality(getShipCells(board, SHIPS[i].id)) = SHIPS[i].size
    /\ \A x \in Coords : Cell(x).hasShip <=> Cell(x).shipId # null
    /\ \A x \in Coords : Cell(x).shipId \in ShipIds \cup {null}
    /\ \A i, j \in 1 .. Len(SHIPS) :
         i # j => CoordSet(placements[SHIPS[i].id]) \cap
                  CoordSet(placements[SHIPS[j].id]) = {}

\* C1 witness: a board returned by a buildBoard whose overlap check rejected
\* at least one sampled origin (more than three draws per ship were made).
C1_Witness ==
  /\ uncaught = "none"
  /\ impl = Refactor
  /\ call.fn = "buildBoard" /\ call.ok /\ call.used > 3 * Len(SHIPS)
  /\ Cardinality({x \in Coords : Cell(x).hasShip}) = 17

Horizontal(cs) ==
  \A k \in 1 .. Len(cs) - 1 : cs[k + 1].r = cs[k].r /\ cs[k + 1].c = cs[k].c + 1

Vertical(cs) ==
  \A k \in 1 .. Len(cs) - 1 : cs[k + 1].c = cs[k].c /\ cs[k + 1].r = cs[k].r + 1

\* C2: the coordinate list placeShip returns has the ship's catalogue size,
\* lies inside [0,9] x [0,9], and its consecutive coordinates differ by one
\* step along one axis (one row with consecutive columns, or one column with
\* consecutive rows), for every orientation and origin the sampler draws.
C2_PlacementShape ==
  (call.fn = "placeShip" /\ call.ok) =>
    /\ Len(call.coords) = call.ship.size
    /\ \A k \in 1 .. Len(call.coords) :
         call.coords[k].r \in 0 .. 9 /\ call.coords[k].c \in 0 .. 9
    /\ Horizontal(call.coords) \/ Vertical(call.coords)

\* C2 witness: a ship placed vertically with its last cell on the bottom row
\* (the largest origin of the range), after the overlap check rejected a sample.
C2_Witness ==
  /\ call.fn = "placeShip" /\ call.ok /\ call.used > 3
  /\ Vertical(call.coords)
  /\ call.coords[1].r = GRID_SIZE - call.ship.size
  /\ call.coords[Len(call.coords)].r = GRID_SIZE - 1

\* C3: at game start and after every reset, for every ship id the coordinates
\* in placements[id] are exactly the board cells whose shipId is that id.
C3_PlacementDescribesBoard ==
  uncaught # "mount" =>
    \A id \in ShipIds : CoordSet(placements[id]) = getShipCells(board, id)

\* The state a click on cell x leads to from the current state: what
\* HandleShot(x[1], x[2]) assigns (handleShot and the render after it).
AfterShot(x) == flush(hits, handleShot(impl, State, State, x[1], x[2]))

\* C4: a handleShot on a cell that is already marked hit is rejected: it
\* leaves board, shots, hits, sunk and gameOver as the first shot left them.
C4_SecondShotRejected ==
  \A x \in Coords : Cell(x).hit => AfterShot(x) = State

\* C4 witness: a ship cell and a water cell have been shot, and shooting
\* either of them again leaves the state as it is.
C4_Witness ==
  /\ \E x \in Coords : Cell(x).hit /\ Cell(x).hasShip /\ AfterShot(x) = State
  /\ \E x \in Coords : Cell(x).hit /\ ~ Cell(x).hasShip /\ AfterShot(x) = State
  /\ shots = 2 /\ hits = 1

\* C5: gameOver is triggered exactly at hits = 17, the sum of the catalogue
\* sizes computed from SHIPS: it is never true while hits < 17 and it is true
\* whenever hits has reached 17.
C5_GameOverAtSeventeen ==
  /\ totalShipCells = 17
  /\ gameOver => hits >= 17
  /\ hits >= 17 => gameOver
  /\ hits = 17 => \A x \in Coords : Cell(x).hasShip => Cell(x).hit

\* C5 witness: the seventeenth hit has been made, after a miss.
C5_Witness == hits = 17 /\ gameOver /\ shots = 18

\* C6: once gameOver is true, every handleShot on any cell is rejected
\* (board, shots, hits, sunk unchanged, gameOver still true), and only
\* resetGame leads back to a state with gameOver false.
C6_GameOverTerminal ==
  [][gameOver =>
       /\ \A x \in Coords : AfterShot(x) = State
       /\ gameOver' \/ ResetGame(BuiltGame)]_vars

\* C6 witness: the game is over while a cell has never been shot, and the
\* shot at that cell is rejected.
C6_Witness ==
  /\ gameOver
  /\ \E x \in ProbeCells : ~ Cell(x).hit /\ AfterShot(x) = State

\* C7: for every ship, all its cells have sunk = true if and only if all its
\* cells have hit = true; a cell without a ship never has sunk = true.
C7_SunkIffAllHit ==
  /\ \A id \in ShipIds :
       (\A x \in getShipCells(board, id) : Cell(x).sunk)
         <=> (\A x \in getShipCells(board, id) : Cell(x).hit)
  /\ \A x \in Coords : ~ Cell(x).hasShip => ~ Cell(x).sunk

\* C7 witness: one ship is sunk while another is hit in part and not sunk.
C7_Witness ==
  /\ \E id \in ShipIds : \A x \in getShipCells(board, id) : Cell(x).sunk
  /\ \E id \in ShipIds :
       /\ \E x \in getShipCells(board, id) : Cell(x).hit
       /\ \E x \in getShipCells(board, id) : ~ Cell(x).hit
       /\ \A x \in getShipCells(board, id) : ~ Cell(x).sunk

\* C8: a handleShot never decreases shots, hits or sunk and never takes a
\* cell's hit or sunk flag from true back to false.
C8_Monotone ==
  \A x \in Targets(board) :
    LET st == AfterShot(x)
    IN  /\ st.shots >= shots /\ st.hits >= hits /\ st.sunk >= sunk
        /\ \A y \in Coords :
             st.board[y[1]][y[2]] # Cell(y) =>
               /\ Cell(y).hit => st.board[y[1]][y[2]].hit
               /\ Cell(y).sunk => st.board[y[1]][y[2]].sunk

\* C8 witness: two ships have been sunk and a shot has missed.
C8_Witness == sunk = 2 /\ shots > hits /\ ~ gameOver

\* C9: an accepted shot (game not over, target not yet hit) adds exactly 1 to
\* shots, 1 to hits if the target has a ship (else 0) and 1 to sunk if that
\* hit completes its ship (else 0); a rejected shot changes no counter.
C9_CounterSteps ==
  \A x \in Targets(board) :
    LET st        == AfterShot(x)
        accepted  == ~ gameOver /\ ~ Cell(x).hit
        isHit     == accepted /\ Cell(x).hasShip
        completes == isHit /\ \A y \in getShipCells(board, Cell(x).shipId) \ {x} :
                                Cell(y).hit
    IN  /\ st.shots = shots + (IF accepted THEN 1 ELSE 0)
        /\ st.hits = hits + (IF isHit THEN 1 ELSE 0)
        /\ st.sunk = sunk + (IF completes THEN 1 ELSE 0)

\* C9 witness: a miss and the five hits that sink the first ship.
C9_Witness ==
  /\ shots = 6 /\ hits = 5 /\ sunk = 1
  /\ \A x \in getShipCells(board, SHIPS[1].id) : Cell(x).sunk

\* C10: a handleShot changes hasShip and shipId of no cell, the hit flag of
\* no cell but the target, and the sunk flag only of the cells of the
\* target's ship, and only when the shot completes that ship.
C10_ShotFrame ==
  \A x \in Targets(board) :
    LET st == AfterShot(x)
    IN  \A y \in Coords :
          st.board[y[1]][y[2]] # Cell(y) =>
            /\ st.board[y[1]][y[2]].hasShip = Cell(y).hasShip
            /\ st.board[y[1]][y[2]].shipId = Cell(y).shipId
            /\ y # x => st.board[y[1]][y[2]].hit = Cell(y).hit
            /\ st.board[y[1]][y[2]].sunk # Cell(y).sunk =>
                 /\ Cell(x).hasShip /\ Cell(y).shipId = Cell(x).shipId
                 /\ \A z \in getShipCells(board, Cell(x).shipId) \ {x} : Cell(z).hit

\* C10 witness: a ship has been sunk while cells of another ship and a water
\* cell are hit and not sunk.
C10_Witness ==
  /\ sunk = 1
  /\ \E y \in Coords : Cell(y).hasShip /\ Cell(y).hit /\ ~ Cell(y).sunk
  /\ \E y \in Coords : ~ Cell(y).hasShip /\ Cell(y).hit

\* The state a click on Reiniciar leads to from the current state when its
\* buildBoard() call has the outcome fresh: what ResetGame assigns.
AfterReset(fresh) ==
  IF fresh.ok THEN flush(hits, resetGame(State, fresh)) ELSE State

\* A board with the whole fleet on it, disjoint, and no cell shot
FreshBoard(b) ==
  /\ \A i \in 1 .. Len(SHIPS) :
       Cardinality(getShipCells(b, SHIPS[i].id)) = SHIPS[i].size
  /\ \A x \in Coords :
       /\ b[x[1]][x[2]].hasShip <=> b[x[1]][x[2]].shipId \in ShipIds
       /\ ~ b[x[1]][x[2]].hit /\ ~ b[x[1]][x[2]].sunk

\* C11: resetGame, from any state, yields a state with shots = 0, hits = 0,
\* sunk = 0, gameOver = FALSE and a fresh valid board with no cell hit or
\* sunk; and gameOver is not true again before 17 new hits are made.
C11_ResetYieldsFreshGame ==
  /\ \A fresh \in BuiltGame \cup StuckBuilt :
       LET st == AfterReset(fresh)
       IN  /\ st.shots = 0 /\ st.hits = 0 /\ st.sunk = 0 /\ ~ st.gameOver
           /\ FreshBoard(st.board)
  /\ gameOver => hits >= 17

\* C12: the exhaustion of placeShip's 500 tries never surfaces to the caller
\* of buildBoard: no mount and no reset ends with the Error uncaught.
C12_ThrowNeverSurfaces ==
  /\ uncaught = "none"
  /\ call.fn = "buildBoard" => call.ok
\* C13: the player wins when all ships are sunk: gameOver is true only in
\* states where sunk = 5 and every ship is fully hit, and in every state
\* where the fifth ship is sunk gameOver is true.
C13_WinWhenAllSunk ==
  /\ gameOver =>
       /\ sunk = Len(SHIPS)
       /\ \A id \in ShipIds : \A x \in getShipCells(board, id) : Cell(x).hit
  /\ sunk = Len(SHIPS) => gameOver
  /\ (\A id \in ShipIds : \A x \in getShipCells(board, id) : Cell(x).sunk)
       => gameOver

\* C13 witness: the game is won with five ships sunk, and one miss was made.
C13_Witness ==
  /\ gameOver /\ sunk = 5
  /\ \E x \in Coords : Cell(x).hit /\ ~ Cell(x).hasShip
  /\ \A x \in Coords : Cell(x).hasShip => Cell(x).sunk
\* C14: two handleShot calls delivered in succession, also when both run
\* against the same rendered board and gameOver, leave the board and the
\* counters that processing the first completely and then the second leaves.
C14_BatchEqualsSequence ==
  \A x, y \in Targets(board) :
    LET both == batchedShots(impl, State, x, y)
        each == successiveShots(impl, State, x, y)
    IN  /\ both.shots = each.shots /\ both.hits = each.hits
        /\ both.sunk = each.sunk
        /\ both.board = each.board
\* C15 as stated: gameOver is true if and only if hits = 20, and hits never
\* exceeds 20.
C15_GameOverIffTwenty ==
  /\ gameOver <=> hits = 20
  /\ hits <= 20

\* C15 amended: gameOver is true if and only if hits = 17, the sum of the
\* sizes in SHIPS, and hits never exceeds 17.
C15_GameOverIffSeventeen ==
  /\ gameOver <=> hits = SumSizes(Len(SHIPS))
  /\ hits <= SumSizes(Len(SHIPS))
  /\ SumSizes(Len(SHIPS)) = 5 + 4 + 3 + 3 + 2

\* C15 witness: the game is won by 17 hits in 17 shots.
C15_Witness == gameOver /\ hits = 17 /\ shots = 17
C17_CountersMatchBoard ==
  /\ shots = Cardinality({x \in Coords : Cell(x).hit})
  /\ hits = Cardinality({x \in Coords : Cell(x).hit /\ Cell(x).hasShip})
  /\ sunk = Cardinality({id \in ShipIds :
                          \A x \in getShipCells(board, id) : Cell(x).hit})
  /\ hits <= shots /\ shots <= GRID_SIZE * GRID_SIZE
  /\ hits <= 17
  /\ 0 <= sunk /\ sunk <= 5

\* C17 witness: three ships are sunk, a fourth is hit once and a shot
\* missed.
C17_Witness == shots = 14 /\ hits = 13 /\ sunk = 3
\* The number of catalogue ships written on board b
placedShips(b) ==
  Cardinality({i \in 1 .. Len(SHIPS) : getShipCells(b, SHIPS[i].id) # {}})

\* Some origin of the range dirLimits gives passes canPlaceAt
hasFreeOrigin(b, dir, size) ==
  \E r0 \in 0 .. dirLimits(dir, size).maxRow - 1,
     c0 \in 0 .. dirLimits(dir, size).maxCol - 1 :
       canPlaceAt(b, r0, c0, dir, size)

\* C18: placement never dead-ends: on every board that holds the first k
\* ships (k < 5), for either orientation, some origin of the valid range
\* passes the overlap check for the next ship, and still does for the ship
\* after it wherever the next ship is written; a placeShip that threw had
\* such an origin and did not draw it.
C18_NoDeadEnd ==
  /\ placedShips(board) < Len(SHIPS) =>
       \A dir \in {"H", "V"} :
         hasFreeOrigin(board, dir, SHIPS[placedShips(board) + 1].size)
  /\ placedShips(board) + 1 < Len(SHIPS) =>
       \A dir \in {"H", "V"} :
         \A r0 \in 0 .. dirLimits(dir, SHIPS[placedShips(board) + 1].size).maxRow - 1,
            c0 \in 0 .. dirLimits(dir, SHIPS[placedShips(board) + 1].size).maxCol - 1 :
           canPlaceAt(board, r0, c0, dir, SHIPS[placedShips(board) + 1].size) =>
             \A next \in {"H", "V"} :
               hasFreeOrigin(
                 writeShip(board, r0, c0, dir, SHIPS[placedShips(board) + 1]).board,
                 next, SHIPS[placedShips(board) + 2].size)
  /\ uncaught = "placeShip" =>
       /\ board = call.before
       /\ \A dir \in {"H", "V"} : hasFreeOrigin(call.before, dir, call.ship.size)

\* C18 witness: four ships are on the board, the draw for the fifth
\* collided on every try and placeShip threw.
C18_Witness ==
  /\ uncaught = "placeShip"
  /\ placedShips(board) = 4
\* The state a click on cell x leads to from the current state in App i
AfterShotIn(i, x) == flush(hits, handleShot(i, State, State, x[1], x[2]))

\* C19: from the same board and counters, the same event leads the
\* refactored and the original App to the same board, shots, hits, sunk and
\* gameOver: every handleShot the player may deliver, and every resetGame
\* with the same generated board.
C19_RefactorEquivalent ==
  /\ \A x \in Targets(board) :
       LET new == AfterShotIn(Refactor, x)
           old == AfterShotIn(Original, x)
       IN  /\ new.board = old.board
           /\ new.shots = old.shots /\ new.hits = old.hits
           /\ new.sunk = old.sunk /\ new.gameOver = old.gameOver
  /\ \A fresh \in BuiltGame :
       LET new == AfterReset(fresh)
       IN  /\ new.board = fresh.board /\ new.shots = 0 /\ new.hits = 0
           /\ new.sunk = 0 /\ ~ new.gameOver

\* C19 witness: after a miss and with a ship sunk before, a shot sinks
\* another ship in both Apps without ending the game.
C19_Witness ==
  /\ shots > hits
  /\ sunk >= 1
  /\ \E x \in Targets(board) :
       /\ AfterShotIn(Refactor, x).sunk = sunk + 1
       /\ AfterShotIn(Original, x).sunk = sunk + 1
       /\ ~ AfterShotIn(Original, x).gameOver
====
